---------------------------- MODULE Spec2Model ----------------------------
(***************************************************************************)
(* State-machine model of the PPPoE session supervisor:                    *)
(*   src/src/pppoe/client.rs   PPPoEClient  (one task per session)         *)
(*   src/src/pppoe/manager.rs  PPPoEManager (registry, command channels,   *)
(*                             event loop, liveness loop, stats loop,      *)
(*                             rotation scheduler, control operations)     *)
(*                                                                         *)
(* Granularity: one action per stretch of code between two suspension      *)
(* points (.await on a lock, a channel, a timer or an external process).   *)
(* Time is abstracted: a sleep is a state the task leaves at any moment.   *)
(* start_clients builds every client with the five-argument constructor    *)
(* call of manager.rs:90-96, so the dialer path of connect() (dry_run      *)
(* false) is the one modelled.                                             *)
(***************************************************************************)
EXTENDS Integers, Sequences, FiniteSets, TLC

\* ------------------------------------------------------------------ bounds
\* Capacity of a client's command channel in the model (mpsc::channel(32)).
CmdCap == 2
\* Capacity of the shared event channel in the model.
EventCap == 2
\* IP lines a stdout reader may have parsed and not yet sent.
MaxPending == 1
\* Largest value of the client field max_reconnect_attempts in the model.
MaxAttempts == 2
\* Largest health_check_failure_threshold of the model's configurations.
MaxThreshold == 2
\* Failed probes the model still counts once the threshold is reached.
ExtraFailures == 2
\* Capacity of both channels in the specifications with the most tasks.
SystemCap == 1
\* Largest interface index update_connection_info is applied to on its own.
MaxIndex == 120
\* Proxy children ProxyServer::start spawns at most in the model.
MaxProxyStarts == 3
\* Longest IP_ROTATION_TIME string the scheduler is checked on.
MaxTimeLen == 4
\* Sessions of the fleet the rotation is checked on.
FleetSize == 2
\* Largest plain PPPOE_SESSION_COUNT of the environments load is applied to.
MaxLoadCount == 9
\* Longest stream of events the registry's writers are run against.
MaxEvents == 3

\* ------------------------------------------------------- program constants
\* PPPOE_SESSION_COUNT when the variable is not set.
DefaultSessionCount == 1
\* max_reconnect_attempts as PPPoEClient::new sets it.
MaxReconnectAttempts == 10
\* Largest PPPOE_SESSION_COUNT the configuration accepts.
MaxSessionCount == 7
\* The table of the first session: update_connection_info adds the index to it.
FirstSessionTable == 101
\* The table init_route gives the uplink's default route.
UplinkTable == 100

\* ------------------------------------------------------------------ state
VARIABLES
    env,                  \* the process environment: the variables AppConfig::load
                          \* reads, and whether running `ip` can fail in it
    main_pc,              \* main: "load", "loaded", "failed" (load returned Err),
                          \* "running" (the clients are registered and spawned) or
                          \* "dropped" (the manager and its tasks are gone)
    config,               \* IpRotationConfig and the session count, fixed after load
    client_controls,      \* PPPoEManager.client_controls: the registered interface names
    cmd_chan,             \* per interface: the buffer of its command channel
    events,               \* the buffer of the shared PpmsEvent channel
    cpc,                  \* per client: its position in PPPoEClient::run
    should_be_connected,  \* PPPoEClient.should_be_connected
    reconnect_attempts,   \* PPPoEClient.reconnect_attempts
    pppd,                 \* PPPoEClient.pppd: "None", or the state of the held child
    children,             \* per client: dialer processes it spawned that are alive
    reader_pending,       \* per client: IP lines parsed by a stdout reader, not yet sent
    data,                 \* PPPoEManager.data: interface -> ConnectionInfo
    data_lock,            \* holder of the registry mutex, or "free"
    controls_lock,        \* holder of the command-channel map mutex, or "free"
    ev_pc,                \* run_event_loop: position
    ev_cur,               \* run_event_loop: the event being applied
    route_cmd,            \* the `ip route add` update_connection_info is awaiting
    tpc,                  \* position of the liveness loop ("health") and of the
                          \* control surface ("ctl") in the manager's operations
    tloc,                 \* their locals: interface, command, probe result, caller
    h_todo,               \* liveness loop: the snapshot's interfaces still to probe
    s_pc,                 \* serve(): position
    s_todo,               \* serve(): clients start_all / stop_all still iterates over
    secs,                 \* serve(): the interval it sleeps before the next rotation
    s_log,                \* history: the sends of the start_all (at start-up) or
                          \* rotate_ips call in progress, <<command, interface>> each
    hs_sent,              \* history: per interface, Reconnect commands that
                          \* update_health_status sent since the last ok = true call
    hs_fails,             \* history: per interface, update_health_status(_, false)
                          \* calls applied since the last ok = true call
    proxy,                \* ProxyServer: config_json, process and guard_task (the
                          \* number of the child / guard held, 0 for None)
    proxy_lock,           \* holder of the ProxyServer mutex, or "free"
    gost,                 \* the proxy children alive: number and configuration
    gost_spawned,         \* proxy children spawned so far (numbers children, guards)
    guard,                \* the guard task alive: position, number, child it owns
    start_task,           \* a call of ProxyServer::start not yet past the lock
    stop_pc               \* main's call of ProxyServer::stop: position

bootVars == <<env, main_pc>>
proxyVars == <<proxy, proxy_lock, gost, gost_spawned, guard, start_task, stop_pc>>
\* What no task of the session supervisor changes once the clients run.
cfgVars == <<config, client_controls, bootVars, proxyVars>>
clientVars == <<cpc, should_be_connected, reconnect_attempts, pppd, children>>
regVars == <<data, data_lock>>
evVars == <<ev_pc, ev_cur, route_cmd>>
taskVars == <<tpc, tloc, h_todo>>
serveVars == <<s_pc, s_todo, secs, s_log>>
histVars == <<hs_sent, hs_fails>>
\* Everything of the manager a client or a dialer never touches.
managerVars == <<data, data_lock, controls_lock, ev_pc, ev_cur, route_cmd, tpc,
                 tloc, h_todo, s_pc, s_todo, secs, s_log, hs_sent, hs_fails>>
vars == <<env, main_pc, config, client_controls, cmd_chan, events, cpc, should_be_connected,
          reconnect_attempts, pppd, children, reader_pending, data, data_lock,
          controls_lock, ev_pc, ev_cur, route_cmd, tpc, tloc, h_todo, s_pc, s_todo,
          secs, s_log, hs_sent, hs_fails, proxy, proxy_lock, gost, gost_spawned,
          guard, start_task, stop_pc>>

\* The interfaces ppp0 .. ppp<N-1> of the configuration.
Ifaces == 0 .. (config.session_count - 1)

NoEvent == [type |-> "None"]

IpUpdated(i) == [type |-> "IpUpdated", interface |-> i,
                 local_ip |-> "Some", connected_at |-> "Some"]

Disconnected(i) == [type |-> "Disconnected", interface |-> i]

\* ConnectionInfo::default()
DefaultInfo == [local_ip |-> "None", connected_at |-> "None",
                is_healthy |-> FALSE, consecutive_failures |-> 0,
                last_health_check |-> "None",
                traffic |-> "Default", uptime_seconds |-> "Default"]

\* ------------------------------------------------------------ the client
\* The manager has been dropped: the senders of the command channels and the
\* receiver of the event channel are gone with it.
ManagerDropped == main_pc = "dropped"

\* event_sender.send(e).await with the result ignored: waits for room in the
\* channel, and returns Err at once when the receiver is dropped.
SendEvent(e) ==
    IF ManagerDropped
    THEN UNCHANGED events
    ELSE /\ Len(events) < config.event_cap
         /\ events' = Append(events, e)

\* Command::new("pppd")...spawn(): Ok stores the child, Err only logs.
connect(i, ok) ==
    /\ pppd' = IF ok THEN [pppd EXCEPT ![i] = "Running"] ELSE pppd
    /\ children' = IF ok THEN [children EXCEPT ![i] = @ + 1] ELSE children

\* pppd.take(), then kill the child if there was one.
disconnect(i) ==
    /\ pppd' = [pppd EXCEPT ![i] = "None"]
    /\ children' = IF pppd[i] = "Running"
                   THEN [children EXCEPT ![i] = @ - 1] ELSE children

\* run(): the initial connect before the loop.
ClientStart(i) ==
    /\ cpc[i] = "init"
    /\ should_be_connected' = [should_be_connected EXCEPT ![i] = TRUE]
    /\ \E ok \in BOOLEAN : connect(i, ok)
    /\ cpc' = [cpc EXCEPT ![i] = "select"]
    /\ UNCHANGED <<cfgVars, cmd_chan, events, reconnect_attempts, reader_pending,
                   managerVars>>

\* OnConnect resetting the attempt counter whether or not a child is held.
OnConnectAlwaysResets(i) ==
    /\ should_be_connected' = [should_be_connected EXCEPT ![i] = TRUE]
    /\ reconnect_attempts' = [reconnect_attempts EXCEPT ![i] = 0]
    /\ IF pppd[i] = "None"
       THEN \E ok \in BOOLEAN : connect(i, ok)
       ELSE UNCHANGED <<pppd, children>>
    /\ UNCHANGED cpc

\* OnConnect without the pppd.is_none() test.
OnConnectNoCheck(i) ==
    /\ should_be_connected' = [should_be_connected EXCEPT ![i] = TRUE]
    /\ reconnect_attempts' = [reconnect_attempts EXCEPT ![i] = 0]
    /\ \E ok \in BOOLEAN : connect(i, ok)
    /\ UNCHANGED cpc

\* The Connect command.
OnConnect(i) ==
    /\ should_be_connected' = [should_be_connected EXCEPT ![i] = TRUE]
    /\ IF pppd[i] = "None"
       THEN /\ reconnect_attempts' = [reconnect_attempts EXCEPT ![i] = 0]
            /\ \E ok \in BOOLEAN : connect(i, ok)
       ELSE UNCHANGED <<reconnect_attempts, pppd, children>>
    /\ UNCHANGED cpc

\* OnDisconnect leaving the child alone.
OnDisconnectKeepsChild(i) ==
    /\ should_be_connected' = [should_be_connected EXCEPT ![i] = FALSE]
    /\ reconnect_attempts' = [reconnect_attempts EXCEPT ![i] = 0]
    /\ UNCHANGED <<pppd, children, cpc>>

\* The Disconnect command.
OnDisconnect(i) ==
    /\ should_be_connected' = [should_be_connected EXCEPT ![i] = FALSE]
    /\ reconnect_attempts' = [reconnect_attempts EXCEPT ![i] = 0]
    /\ disconnect(i)
    /\ UNCHANGED cpc

\* The Reconnect command, up to its 2 s sleep.
OnReconnect(i) ==
    /\ should_be_connected' = [should_be_connected EXCEPT ![i] = TRUE]
    /\ reconnect_attempts' = [reconnect_attempts EXCEPT ![i] = 0]
    /\ disconnect(i)
    /\ cpc' = [cpc EXCEPT ![i] = "reconnect_sleep"]

\* The command arm taking the newest command of the channel instead of the
\* oldest.
ClientCommandNewest(i) ==
    /\ cpc[i] = "select"
    /\ cmd_chan[i] # <<>>
    /\ cmd_chan' = [cmd_chan EXCEPT ![i] = SubSeq(@, 1, Len(@) - 1)]
    /\ CASE cmd_chan[i][Len(cmd_chan[i])] = "Connect" -> OnConnect(i)
         [] cmd_chan[i][Len(cmd_chan[i])] = "Disconnect" -> OnDisconnect(i)
         [] cmd_chan[i][Len(cmd_chan[i])] = "Reconnect" -> OnReconnect(i)
    /\ UNCHANGED <<cfgVars, events, reader_pending, managerVars>>

\* select!: the command arm.
ClientCommand(i) ==
    /\ cpc[i] = "select"
    /\ cmd_chan[i] # <<>>
    /\ cmd_chan' = [cmd_chan EXCEPT ![i] = Tail(@)]
    /\ CASE Head(cmd_chan[i]) = "Connect" -> OnConnect(i)
         [] Head(cmd_chan[i]) = "Disconnect" -> OnDisconnect(i)
         [] Head(cmd_chan[i]) = "Reconnect" -> OnReconnect(i)
    /\ UNCHANGED <<cfgVars, events, reader_pending, managerVars>>

\* Reconnect: the 2 s sleep is over, connect().
ClientReconnectWake(i) ==
    /\ cpc[i] = "reconnect_sleep"
    /\ \E ok \in BOOLEAN : connect(i, ok)
    /\ cpc' = [cpc EXCEPT ![i] = "select"]
    /\ UNCHANGED <<cfgVars, cmd_chan, events, should_be_connected,
                   reconnect_attempts, reader_pending, managerVars>>

\* The child-exit arm leaving the exited child in self.pppd.
ClientChildExitKeepsHandle(i) ==
    /\ cpc[i] = "select"
    /\ pppd[i] = "Exited"
    /\ cpc' = [cpc EXCEPT ![i] = "exit_send"]
    /\ UNCHANGED <<cfgVars, cmd_chan, events, should_be_connected,
                   reconnect_attempts, pppd, children, reader_pending, managerVars>>

\* select!: the child-exit arm, up to the event send.
ClientChildExit(i) ==
    /\ cpc[i] = "select"
    /\ pppd[i] = "Exited"
    /\ pppd' = [pppd EXCEPT ![i] = "None"]
    /\ cpc' = [cpc EXCEPT ![i] = "exit_send"]
    /\ UNCHANGED <<cfgVars, cmd_chan, events, should_be_connected,
                   reconnect_attempts, children, reader_pending, managerVars>>

\* The child-exit arm from the event send to the backoff sleep or the give-up.
ClientExitSend(i) ==
    /\ cpc[i] = "exit_send"
    /\ SendEvent(Disconnected(i))
    /\ IF should_be_connected[i]
       THEN IF config.max_reconnect_attempts = 0
               \/ reconnect_attempts[i] < config.max_reconnect_attempts
            THEN /\ reconnect_attempts' = [reconnect_attempts EXCEPT ![i] = @ + 1]
                 /\ cpc' = [cpc EXCEPT ![i] = "backoff_sleep"]
                 /\ UNCHANGED should_be_connected
            ELSE /\ should_be_connected' = [should_be_connected EXCEPT ![i] = FALSE]
                 /\ cpc' = [cpc EXCEPT ![i] = "select"]
                 /\ UNCHANGED reconnect_attempts
       ELSE /\ cpc' = [cpc EXCEPT ![i] = "select"]
            /\ UNCHANGED <<should_be_connected, reconnect_attempts>>
    /\ UNCHANGED <<cfgVars, cmd_chan, pppd, children, reader_pending, managerVars>>

\* The backoff delay without its 30 s cap.
BackoffDelayUncapped(i) == 5 * reconnect_attempts[i]

\* The backoff delay min(5 * attempts, 30) the client is waiting out.
BackoffDelay(i) ==
    IF 5 * reconnect_attempts[i] < 30 THEN 5 * reconnect_attempts[i] ELSE 30

\* The backoff sleep is over, connect().
ClientBackoffWake(i) ==
    /\ cpc[i] = "backoff_sleep"
    /\ \E ok \in BOOLEAN : connect(i, ok)
    /\ cpc' = [cpc EXCEPT ![i] = "select"]
    /\ UNCHANGED <<cfgVars, cmd_chan, events, should_be_connected,
                   reconnect_attempts, reader_pending, managerVars>>

\* select! with the command channel closed and drained and no child held:
\* recv() yields None and the child arm yields None, so both arms are disabled
\* and, there being no else arm, select! panics.
ClientAllDisabled(i) ==
    /\ cpc[i] = "select"
    /\ ManagerDropped
    /\ cmd_chan[i] = <<>>
    /\ pppd[i] = "None"
    /\ cpc' = [cpc EXCEPT ![i] = "panicked"]
    /\ UNCHANGED <<cfgVars, cmd_chan, events, should_be_connected,
                   reconnect_attempts, pppd, children, reader_pending, managerVars>>

\* ------------------------------------------------- the dialer and its reader
\* The dialer prints its "local  IP address" line and the reader parses it.
DialerPrintIp(i) ==
    /\ pppd[i] = "Running"
    /\ reader_pending[i] < MaxPending
    /\ reader_pending' = [reader_pending EXCEPT ![i] = @ + 1]
    /\ UNCHANGED <<cfgVars, cmd_chan, events, clientVars, managerVars>>

\* The reader task sends IpUpdated for a parsed line.
ReaderSend(i) ==
    /\ reader_pending[i] > 0
    /\ SendEvent(IpUpdated(i))
    /\ reader_pending' = [reader_pending EXCEPT ![i] = @ - 1]
    /\ UNCHANGED <<cfgVars, cmd_chan, clientVars, managerVars>>

\* The dialer process exits by itself.
DialerExit(i) ==
    /\ pppd[i] = "Running"
    /\ pppd' = [pppd EXCEPT ![i] = "Exited"]
    /\ children' = [children EXCEPT ![i] = @ - 1]
    /\ UNCHANGED <<cfgVars, cmd_chan, events, cpc, should_be_connected,
                   reconnect_attempts, reader_pending, managerVars>>

\* ------------------------------------------------ interface names and tables
\* A string is the sequence of its characters.
DigitChars == <<"0", "1", "2", "3", "4", "5", "6", "7", "8", "9">>

\* The value of a decimal digit character, -1 for any other character.
DigitValue(c) ==
    IF \E k \in 1 .. 10 : DigitChars[k] = c
    THEN (CHOOSE k \in 1 .. 10 : DigitChars[k] = c) - 1
    ELSE -1

\* format!("{}", n) of an unsigned integer.
RECURSIVE ToDecimal(_)
ToDecimal(n) ==
    IF n < 10 THEN <<DigitChars[n + 1]>>
    ELSE ToDecimal(n \div 10) \o <<DigitChars[(n % 10) + 1]>>

\* format!("ppp{}", i)
InterfaceName(i) == <<"p", "p", "p">> \o ToDecimal(i)

\* str::trim_start_matches("ppp"): the prefix is removed as often as it matches.
RECURSIVE TrimStartPpp(_)
TrimStartPpp(s) ==
    IF Len(s) >= 3 /\ SubSeq(s, 1, 3) = <<"p", "p", "p">>
    THEN TrimStartPpp(SubSeq(s, 4, Len(s)))
    ELSE s

\* The value of a string of decimal digits read left to right.
RECURSIVE DecimalValue(_)
DecimalValue(s) ==
    IF s = <<>> THEN 0
    ELSE 10 * DecimalValue(SubSeq(s, 1, Len(s) - 1)) + DigitValue(s[Len(s)])

\* The value of an environment variable that is not set.
NotSet == <<"<not set>">>

\* The value of a non-empty string of decimal digits, -1 for any other string.
DigitsValue(s) ==
    IF s # <<>> /\ \A k \in 1 .. Len(s) : DigitValue(s[k]) >= 0
    THEN DecimalValue(s)
    ELSE -1

\* str::parse of an unsigned integer type: an optional "+", then digits; -1
\* when the string does not parse. (A value over the type's MAX does not parse
\* either: ParseU16 tests it, and the u32 strings of the model stay far below.)
ParseUnsigned(s) ==
    IF s # <<>> /\ s[1] = "+" THEN DigitsValue(Tail(s)) ELSE DigitsValue(s)

\* str::parse::<u16>()
ParseU16(s) == IF ParseUnsigned(s) > 65535 THEN -1 ELSE ParseUnsigned(s)

\* str::parse::<i64>(): an optional "+" or "-", then digits.
ParseI64(s) ==
    IF s # <<>> /\ s[1] = "-"
    THEN [ok |-> DigitsValue(Tail(s)) >= 0, value |-> 0 - DigitsValue(Tail(s))]
    ELSE [ok |-> ParseUnsigned(s) >= 0, value |-> ParseUnsigned(s)]

\* str::parse::<u32>().unwrap_or(0)
ParseU32OrZero(s) == IF ParseUnsigned(s) >= 0 THEN ParseUnsigned(s) ELSE 0

\* str::split(':'): the parts between the colons (at least one part).
RECURSIVE SplitColon(_)
SplitColon(s) ==
    IF \A k \in 1 .. Len(s) : s[k] # ":" THEN <<s>>
    ELSE LET c == CHOOSE k \in 1 .. Len(s) :
                      s[k] = ":" /\ \A j \in 1 .. (k - 1) : s[j] # ":"
         IN <<SubSeq(s, 1, c - 1)>> \o SplitColon(SubSeq(s, c + 1, Len(s)))

\* is_valid_time_format: HH:MM with both parts parsing as u32, HH < 24, MM < 60.
IsValidTimeFormat(time) ==
    /\ Len(SplitColon(time)) = 2
    /\ ParseUnsigned(SplitColon(time)[1]) >= 0
    /\ ParseUnsigned(SplitColon(time)[2]) >= 0
    /\ ParseUnsigned(SplitColon(time)[1]) < 24
    /\ ParseUnsigned(SplitColon(time)[2]) < 60

\* The index taken from the last character of the name only.
RouteIndexLastChar(name) == DigitValue(name[Len(name)])

\* The index update_connection_info takes from the interface name.
RouteIndex(name) == ParseU32OrZero(TrimStartPpp(name))

\* No `ip route add` is running.
NoRoute == [dev |-> <<>>, table |-> 0, result |-> "None"]

\* ip route add default dev <interface> table <101 + idx>
AddDefaultRoute(name) ==
    [dev |-> name, table |-> FirstSessionTable + RouteIndex(name)]

\* What Command::output() of `ip` gives add_default_route: Ok (whatever the
\* exit status of ip), or Err when the command could not be run.
RouteResults == IF env.ip_can_fail THEN {"Ok", "Err"} ELSE {"Ok"}

\* The command update_connection_info awaits, with the result it will have.
Awaited(cmd, result) == [dev |-> cmd.dev, table |-> cmd.table, result |-> result]

\* ---------------------------------------------------------- the event loop
\* receiver.recv()
EvRecv ==
    /\ ev_pc = "recv"
    /\ events # <<>>
    /\ ev_cur' = Head(events)
    /\ events' = Tail(events)
    /\ ev_pc' = "lock"
    /\ UNCHANGED <<cfgVars, cmd_chan, clientVars, reader_pending, regVars,
                   controls_lock, route_cmd, taskVars, serveVars, histVars>>

\* update_connection_info: lock the registry, upsert the entry, start `ip route add`.
EvLock ==
    /\ ev_pc = "lock"
    /\ data_lock = "free"
    /\ data_lock' = "event"
    /\ data' = IF ev_cur.interface \in DOMAIN data THEN data
               ELSE [k \in DOMAIN data \cup {ev_cur.interface} |->
                       IF k \in DOMAIN data THEN data[k] ELSE DefaultInfo]
    /\ ev_pc' = "route"
    /\ \E result \in RouteResults :
         route_cmd' = Awaited(AddDefaultRoute(InterfaceName(ev_cur.interface)), result)
    /\ UNCHANGED <<cfgVars, cmd_chan, events, clientVars, reader_pending, ev_cur,
                   controls_lock, taskVars, serveVars, histVars>>

\* StoreConnection writing the fields into a fresh ConnectionInfo.
StoreConnectionFresh(info, local_ip, connected_at) ==
    [DefaultInfo EXCEPT !.local_ip = local_ip, !.connected_at = connected_at]

\* StoreConnection forgetting connected_at.
StoreConnectionIpOnly(info, local_ip, connected_at) ==
    [info EXCEPT !.local_ip = local_ip]

\* The fields update_connection_info stores once add_default_route has returned.
StoreConnection(info, local_ip, connected_at) ==
    [info EXCEPT !.local_ip = local_ip, !.connected_at = connected_at]

\* EvRouteDone returning from update_connection_info when add_default_route
\* gave Err, the fields not stored.
EvRouteDoneErrReturns ==
    /\ ev_pc = "route"
    /\ data' = [data EXCEPT ![ev_cur.interface] =
                  IF route_cmd.result = "Err" THEN @
                  ELSE IF ev_cur.type = "IpUpdated"
                  THEN StoreConnection(@, ev_cur.local_ip, ev_cur.connected_at)
                  ELSE StoreConnection(@, "None", "None")]
    /\ data_lock' = "free"
    /\ ev_pc' = "recv"
    /\ ev_cur' = NoEvent
    /\ route_cmd' = NoRoute
    /\ UNCHANGED <<cfgVars, cmd_chan, events, clientVars, reader_pending,
                   controls_lock, taskVars, serveVars, histVars>>

\* update_connection_info: `ip route add` returned (its error is only logged);
\* store the fields and release the registry.
EvRouteDone ==
    /\ ev_pc = "route"
    /\ data' = [data EXCEPT ![ev_cur.interface] =
                  IF ev_cur.type = "IpUpdated"
                  THEN StoreConnection(@, ev_cur.local_ip, ev_cur.connected_at)
                  ELSE StoreConnection(@, "None", "None")]
    /\ data_lock' = "free"
    /\ ev_pc' = "recv"
    /\ ev_cur' = NoEvent
    /\ route_cmd' = NoRoute
    /\ UNCHANGED <<cfgVars, cmd_chan, events, clientVars, reader_pending,
                   controls_lock, taskVars, serveVars, histVars>>

\* --------------------------------------------- operations of the manager
\* The tasks that call the manager's operations: the liveness loop and the
\* control surface (bot/mod.rs).
Tasks == {"health", "ctl"}

Commands == {"Connect", "Disconnect", "Reconnect"}

IdleLoc == [iface |-> -1, cmd |-> "None", origin |-> "None"]

\* Interface names the control surface may pass: the registered ones and one
\* that is not (ppp<N>).
CtlIfaces == Ifaces \cup {config.session_count}

\* The byte of a character of an interface name ('0' .. '9' are 48 .. 57, 'p'
\* is 112).
CharCode(c) == IF DigitValue(c) >= 0 THEN 48 + DigitValue(c) ELSE 112

\* Ord for String: byte-wise lexicographic order.
RECURSIVE StrLeq(_, _)
StrLeq(a, b) ==
    IF a = <<>> THEN TRUE
    ELSE IF b = <<>> THEN FALSE
    ELSE IF a[1] = b[1] THEN StrLeq(Tail(a), Tail(b))
    ELSE CharCode(a[1]) < CharCode(b[1])

\* BTreeMap<String, _> iteration: ascending order of the interface names.
RECURSIVE KeyOrder(_)
KeyOrder(S) ==
    IF S = {} THEN <<>>
    ELSE LET m == CHOOSE x \in S :
                      \A y \in S : StrLeq(InterfaceName(x), InterfaceName(y))
         IN <<m>> \o KeyOrder(S \ {m})

\* An operation returns to its caller: the control surface goes on to reply,
\* the liveness loop to the next interface of its snapshot (or to its sleep).
Return(t, result) ==
    IF t = "ctl"
    THEN /\ tpc' = [tpc EXCEPT ![t] = result]
         /\ tloc' = [tloc EXCEPT ![t] = IdleLoc]
         /\ UNCHANGED h_todo
    ELSE /\ h_todo' = Tail(h_todo)
         /\ tpc' = [tpc EXCEPT ![t] = IF Tail(h_todo) = <<>> THEN "sleep" ELSE "probe"]
         /\ tloc' = [tloc EXCEPT ![t] =
                       IF Tail(h_todo) = <<>> THEN IdleLoc
                       ELSE [IdleLoc EXCEPT !.iface = Head(Tail(h_todo))]]

\* A registry guard still alive when update_health_status returns is dropped.
ReleasedAtReturn(t) == IF data_lock = t THEN "free" ELSE data_lock

\* CtlCall returning the not-found error with the channel map still locked.
CtlCallLeakingLock ==
    /\ tpc["ctl"] = "idle"
    /\ controls_lock = "free"
    /\ \E i \in CtlIfaces, c \in Commands :
         IF i \in client_controls
         THEN /\ controls_lock' = "ctl"
              /\ tpc' = [tpc EXCEPT !["ctl"] = "send"]
              /\ tloc' = [tloc EXCEPT !["ctl"] =
                            [iface |-> i, cmd |-> c, origin |-> "op"]]
         ELSE /\ tpc' = [tpc EXCEPT !["ctl"] = "reply_err"]
              /\ controls_lock' = "ctl"
              /\ UNCHANGED tloc
    /\ UNCHANGED <<cfgVars, cmd_chan, events, clientVars, reader_pending, regVars,
                   evVars, h_todo, serveVars, histVars>>

\* The control surface calls connect_client / disconnect_client /
\* reconnect_client: lock the channel map and look the interface up; an
\* unknown name returns the not-found error.
CtlCall ==
    /\ tpc["ctl"] = "idle"
    /\ controls_lock = "free"
    /\ \E i \in CtlIfaces, c \in Commands :
         IF i \in client_controls
         THEN /\ controls_lock' = "ctl"
              /\ tpc' = [tpc EXCEPT !["ctl"] = "send"]
              /\ tloc' = [tloc EXCEPT !["ctl"] =
                            [iface |-> i, cmd |-> c, origin |-> "op"]]
         ELSE /\ tpc' = [tpc EXCEPT !["ctl"] = "reply_err"]
              /\ UNCHANGED <<controls_lock, tloc>>
    /\ UNCHANGED <<cfgVars, cmd_chan, events, clientVars, reader_pending, regVars,
                   evVars, h_todo, serveVars, histVars>>

\* reconnect_client called from update_health_status: lock the channel map and
\* look the interface up; an unknown name returns the not-found error.
CmdLock(t) ==
    /\ tpc[t] = "cmd_lock"
    /\ controls_lock = "free"
    /\ IF tloc[t].iface \in client_controls
       THEN /\ controls_lock' = t
            /\ tpc' = [tpc EXCEPT ![t] = "send"]
            /\ UNCHANGED <<tloc, h_todo, data_lock>>
       ELSE /\ Return(t, "reply_err")
            /\ data_lock' = ReleasedAtReturn(t)
            /\ UNCHANGED controls_lock
    /\ UNCHANGED <<cfgVars, cmd_chan, events, clientVars, reader_pending, data,
                   evVars, serveVars, histVars>>

\* tx.send(cmd).await with the channel map still locked, then the return.
CmdSend(t) ==
    /\ tpc[t] = "send"
    /\ Len(cmd_chan[tloc[t].iface]) < config.cmd_cap
    /\ cmd_chan' = [cmd_chan EXCEPT ![tloc[t].iface] = Append(@, tloc[t].cmd)]
    /\ hs_sent' = IF tloc[t].origin = "uhs"
                  THEN [hs_sent EXCEPT ![tloc[t].iface] = @ + 1] ELSE hs_sent
    /\ UNCHANGED hs_fails
    /\ controls_lock' = "free"
    /\ data_lock' = ReleasedAtReturn(t)
    /\ Return(t, "reply_ok")
    /\ UNCHANGED <<cfgVars, events, clientVars, reader_pending, data, evVars,
                   serveVars>>

\* The control surface reports the result of the operation.
CtlReply ==
    /\ tpc["ctl"] \in {"reply_ok", "reply_err"}
    /\ tpc' = [tpc EXCEPT !["ctl"] = "idle"]
    /\ UNCHANGED <<cfgVars, cmd_chan, events, clientVars, reader_pending, regVars,
                   controls_lock, evVars, tloc, h_todo, serveVars, histVars>>

\* ------------------------------------------------------- liveness probing
\* The snapshot's guard kept alive over the probes.
SnapshotKept == "health"

\* drop(data_lock) after the snapshot, before the probes.
SnapshotRelease == "free"

\* The liveness loop wakes up: snapshot, under the registry lock, the interfaces
\* whose local_ip is set.
HealthWake ==
    /\ tpc["health"] = "sleep"
    /\ data_lock = "free"
    /\ LET snap == KeyOrder({i \in DOMAIN data : data[i].local_ip # "None"})
       IN IF snap = <<>>
          THEN UNCHANGED <<taskVars, data_lock>>
          ELSE /\ h_todo' = snap
               /\ tpc' = [tpc EXCEPT !["health"] = "probe"]
               /\ tloc' = [tloc EXCEPT !["health"] =
                             [IdleLoc EXCEPT !.iface = Head(snap)]]
               /\ data_lock' = SnapshotRelease
    /\ UNCHANGED <<cfgVars, cmd_chan, events, clientVars, reader_pending, data,
                   controls_lock, evVars, serveVars, histVars>>

\* The control surface's healthcheck command: check_health, then
\* update_health_status, for whatever interface name it was given.
CtlHealthcheck ==
    /\ tpc["ctl"] = "idle"
    /\ \E i \in CtlIfaces :
         tloc' = [tloc EXCEPT !["ctl"] = [IdleLoc EXCEPT !.iface = i]]
    /\ tpc' = [tpc EXCEPT !["ctl"] = "probe"]
    /\ UNCHANGED <<cfgVars, cmd_chan, events, clientVars, reader_pending, regVars,
                   controls_lock, evVars, h_todo, serveVars, histVars>>

\* HealthUpdated leaving the counter alone on success.
HealthUpdatedKeepCount(info, ok) ==
    IF ok
    THEN [info EXCEPT !.last_health_check = "Some", !.is_healthy = TRUE]
    ELSE [info EXCEPT !.last_health_check = "Some", !.is_healthy = FALSE,
                      !.consecutive_failures = @ + 1]

\* The fields update_health_status writes for a probe result.
HealthUpdated(info, ok) ==
    IF ok
    THEN [info EXCEPT !.last_health_check = "Some", !.is_healthy = TRUE,
                      !.consecutive_failures = 0]
    ELSE [info EXCEPT !.last_health_check = "Some", !.is_healthy = FALSE,
                      !.consecutive_failures = @ + 1]

\* The threshold test with > for >=.
ReachedThresholdStrict(info) ==
    info.consecutive_failures > config.health_check_failure_threshold

\* The threshold test of update_health_status.
ReachedThreshold(info) ==
    info.consecutive_failures >= config.health_check_failure_threshold

\* The registry guard kept while reconnect_client runs.
KeepRegistry(t) == t

\* drop(data) before reconnect_client is called.
DropRegistry(t) == "free"

\* check_health has given its verdict ok (the ping's exit status), and
\* update_health_status runs: the registry is locked, the entry updated and, at
\* the threshold, reconnect_client called with the registry released.
UpdateHealthStatus(t) ==
    /\ tpc[t] = "probe"
    /\ data_lock = "free"
    /\ \E ok \in BOOLEAN :
         LET i == tloc[t].iface
         IN IF i \in DOMAIN data
            THEN /\ ok \/ data[i].consecutive_failures < config.fail_cap
                 /\ data' = [data EXCEPT ![i] = HealthUpdated(@, ok)]
                 /\ hs_sent' = IF ok THEN [hs_sent EXCEPT ![i] = 0] ELSE hs_sent
                 /\ hs_fails' = [hs_fails EXCEPT ![i] = IF ok THEN 0 ELSE @ + 1]
                 /\ IF ~ok /\ ReachedThreshold(HealthUpdated(data[i], ok))
                    THEN /\ data_lock' = DropRegistry(t)
                         /\ tpc' = [tpc EXCEPT ![t] = "cmd_lock"]
                         /\ tloc' = [tloc EXCEPT ![t] =
                                       [iface |-> i, cmd |-> "Reconnect",
                                        origin |-> "uhs"]]
                         /\ UNCHANGED h_todo
                    ELSE /\ Return(t, "reply_ok")
                         /\ UNCHANGED data_lock
            ELSE /\ Return(t, "reply_ok")
                 /\ UNCHANGED <<data, data_lock, histVars>>
    /\ UNCHANGED <<cfgVars, cmd_chan, events, clientVars, reader_pending,
                   controls_lock, evVars, serveVars>>

\* -------------------------------------------------------- the proxy child
\* Everything but the proxy supervision.
sessionVars == <<bootVars, config, client_controls, cmd_chan, events, clientVars,
                 reader_pending, managerVars>>

\* The services ProxyServer::new puts in the configuration: a proxy and a tun
\* service for the uplink, then one of each per session.
ConfigJson(n) ==
    <<[name |-> "proxy", index |-> 0, interface |-> <<"e", "t", "h", "0">>],
      [name |-> "tun", index |-> 0, interface |-> <<"t", "u", "n", "0">>]>>
        \o [k \in 1 .. 2 * n |->
              IF k % 2 = 1
              THEN [name |-> "proxy", index |-> (k + 1) \div 2,
                    interface |-> InterfaceName((k - 1) \div 2)]
              ELSE [name |-> "tun", index |-> k \div 2,
                    interface |-> <<"t", "u", "n">> \o ToDecimal(k \div 2)]]

NoGuard == [pc |-> "none", id |-> 0, child |-> 0]

\* The numbers of the proxy children alive.
Running == {c.id : c \in gost}

\* ProxyServer::start, by main or by a task the guard spawned: under the lock,
\* spawn ./gost with config_json (a failed spawn panics), store the child,
\* spawn the guard and store its handle.
ProxyStart ==
    /\ start_task = "pending"
    /\ proxy_lock = "free"
    /\ gost_spawned < MaxProxyStarts
    /\ \E ok \in BOOLEAN :
         IF ok
         THEN /\ gost_spawned' = gost_spawned + 1
              /\ gost' = gost \cup {[id |-> gost_spawned + 1,
                                     config |-> proxy.config_json]}
              /\ proxy' = [proxy EXCEPT !.process = gost_spawned + 1,
                                        !.guard_task = gost_spawned + 1]
              /\ guard' = [pc |-> "lock", id |-> gost_spawned + 1, child |-> 0]
              /\ start_task' = "none"
         ELSE /\ start_task' = "panicked"
              /\ UNCHANGED <<proxy, gost, gost_spawned, guard>>
    /\ UNCHANGED <<sessionVars, proxy_lock, stop_pc>>

\* guard: under the lock, take the child out of process; with no child the
\* guard returns.
GuardTake ==
    /\ guard.pc = "lock"
    /\ proxy_lock = "free"
    /\ guard' = IF proxy.process = 0 THEN NoGuard
                ELSE [guard EXCEPT !.pc = "wait", !.child = proxy.process]
    /\ proxy' = [proxy EXCEPT !.process = 0]
    /\ UNCHANGED <<sessionVars, proxy_lock, gost, gost_spawned, start_task, stop_pc>>

\* The guard going on to its sleep whether or not the child has exited.
GuardChildNotAwaited ==
    /\ guard.pc = "wait"
    /\ guard' = [guard EXCEPT !.pc = "sleep", !.child = 0]
    /\ UNCHANGED <<sessionVars, proxy, proxy_lock, gost, gost_spawned, start_task,
                   stop_pc>>

\* guard: child.wait() returns, the child has exited; the 5 s sleep begins.
GuardChildExited ==
    /\ guard.pc = "wait"
    /\ guard.child \notin Running
    /\ guard' = [guard EXCEPT !.pc = "sleep", !.child = 0]
    /\ UNCHANGED <<sessionVars, proxy, proxy_lock, gost, gost_spawned, start_task,
                   stop_pc>>

\* guard: the 5 s sleep is over; respawn_proxy_server spawns a task running
\* ProxyServer::start, and the guard returns.
GuardRespawn ==
    /\ guard.pc = "sleep"
    /\ guard' = NoGuard
    /\ start_task' = "pending"
    /\ UNCHANGED <<sessionVars, proxy, proxy_lock, gost, gost_spawned, stop_pc>>

\* A proxy child exits by itself.
GostExit ==
    /\ \E c \in gost : gost' = gost \ {c}
    /\ UNCHANGED <<sessionVars, proxy, proxy_lock, gost_spawned, guard, start_task,
                   stop_pc>>

\* ProxyServer::stop, called by main after its start has returned: under the
\* lock, abort the guard whose handle is stored (an aborted guard drops the
\* child it owns, which does not kill it: kill_on_drop is not set) and take
\* the child out of process to kill it.
ProxyStop ==
    /\ stop_pc = "idle"
    /\ gost_spawned >= 1
    /\ proxy_lock = "free"
    /\ guard' = IF proxy.guard_task # 0 /\ guard.id = proxy.guard_task
                THEN NoGuard ELSE guard
    /\ proxy' = [proxy EXCEPT !.guard_task = 0]
    /\ IF proxy.process # 0
       THEN /\ proxy_lock' = "stop"
            /\ stop_pc' = "kill"
       ELSE /\ stop_pc' = "done"
            /\ UNCHANGED proxy_lock
    /\ UNCHANGED <<sessionVars, gost, gost_spawned, start_task>>

\* stop: child.kill().await has returned; process is None and the lock free.
ProxyStopKilled ==
    /\ stop_pc = "kill"
    /\ gost' = {c \in gost : c.id # proxy.process}
    /\ proxy' = [proxy EXCEPT !.process = 0]
    /\ proxy_lock' = "free"
    /\ stop_pc' = "done"
    /\ UNCHANGED <<sessionVars, gost_spawned, guard, start_task>>

ProxyNext ==
    \/ ProxyStart
    \/ GuardTake
    \/ GuardChildExited
    \/ GuardRespawn
    \/ GostExit
    \/ ProxyStop
    \/ ProxyStopKilled

\* ------------------------------------------------------------ start-up
\* The session-count test letting one session more through.
TooManySessionsOffByOne(count) == count > MaxSessionCount + 1

\* The session-count test of AppConfig::load.
TooManySessions(count) == count > MaxSessionCount

\* PPPOE_SESSION_COUNT as load parses it: the default when the variable is not
\* set, -1 when the string is no u16.
SessionCountOf(e) ==
    IF e.PPPOE_SESSION_COUNT = NotSet THEN ParseU16(ToDecimal(DefaultSessionCount))
    ELSE ParseU16(e.PPPOE_SESSION_COUNT)

\* AppConfig::load returns Ok: the required variables are set and valid, the
\* session count parses and is not too large, and IP_ROTATION_TIME is HH:MM or
\* parses as u32.
LoadOk(e) ==
    /\ e.required_set
    /\ SessionCountOf(e) >= 0
    /\ ~TooManySessions(SessionCountOf(e))
    /\ IsValidTimeFormat(e.IP_ROTATION_TIME) \/ ParseUnsigned(e.IP_ROTATION_TIME) >= 0

\* main calls AppConfig::load()?: an Err ends main before anything is built.
Load ==
    /\ main_pc = "load"
    /\ IF LoadOk(env)
       THEN /\ config' = [config EXCEPT !.session_count = SessionCountOf(env),
                                        !.rotation_time = env.IP_ROTATION_TIME]
            /\ main_pc' = "loaded"
       ELSE /\ main_pc' = "failed"
            /\ UNCHANGED config
    /\ UNCHANGED <<env, client_controls, cmd_chan, events, clientVars,
                   reader_pending, managerVars, proxyVars>>

\* start_clients(count = session_count): a channel and a client task per
\* interface ppp0 .. ppp<count-1>, each sender registered under its name.
StartClients ==
    /\ main_pc = "loaded"
    /\ controls_lock = "free"
    /\ main_pc' = "running"
    /\ client_controls' = Ifaces
    /\ cmd_chan' = [i \in Ifaces |-> <<>>]
    /\ cpc' = [i \in Ifaces |-> "init"]
    /\ should_be_connected' = [i \in Ifaces |-> FALSE]
    /\ reconnect_attempts' = [i \in Ifaces |-> 0]
    /\ pppd' = [i \in Ifaces |-> "None"]
    /\ children' = [i \in Ifaces |-> 0]
    /\ reader_pending' = [i \in Ifaces |-> 0]
    /\ hs_sent' = [i \in Ifaces |-> 0]
    /\ hs_fails' = [i \in Ifaces |-> 0]
    /\ UNCHANGED <<env, config, events, regVars, controls_lock, evVars, taskVars,
                   serveVars, proxyVars>>

\* The tasks that hold the manager end and the manager is dropped: the
\* command senders in client_controls and the event receiver, with what it
\* had buffered, are dropped.
DropManager ==
    /\ main_pc = "running"
    /\ ev_pc = "recv"
    /\ main_pc' = "dropped"
    /\ events' = <<>>
    /\ UNCHANGED <<env, config, client_controls, proxyVars, cmd_chan, clientVars,
                   reader_pending, managerVars>>

\* The spawned client tasks begin run(): the initial connect of each.
ClientBoot == \E i \in client_controls : ClientStart(i)

\* ------------------------------------------------------------ serve()
\* Local times of day, in seconds since midnight, at which the model lets
\* serve() compute an interval.
ClockSamples == {0, 59, 60, 3661, 43200, 86399}

\* serve() is not in the sleep before a rotation.
NoSecs == -1

\* time_string_to_sec at local time now: the seconds to the next HH:MM:00, today
\* or, when that is already past, tomorrow; Err (here -1) when the string is
\* not two colon-separated u32. (load accepted the string, so HH < 24 and
\* MM < 60 and with_hour / with_minute succeed.)
TimeStringToSec(time_str, now) ==
    IF \/ Len(SplitColon(time_str)) # 2
       \/ ParseUnsigned(SplitColon(time_str)[1]) < 0
       \/ ParseUnsigned(SplitColon(time_str)[2]) < 0
    THEN -1
    ELSE LET next_time == ParseUnsigned(SplitColon(time_str)[1]) * 3600
                             + ParseUnsigned(SplitColon(time_str)[2]) * 60
         IN IF next_time < now THEN next_time + 86400 - now ELSE next_time - now

\* The interval computation taking the integer for seconds.
SecondsRotationSeconds(rotation_time, now) ==
    IF ParseI64(rotation_time).ok THEN ParseI64(rotation_time).value
    ELSE IF TimeStringToSec(rotation_time, now) >= 0
    THEN TimeStringToSec(rotation_time, now)
    ELSE 3600

\* calculate_next_rotation_seconds at local time now.
CalculateNextRotationSeconds(rotation_time, now) ==
    IF ParseI64(rotation_time).ok THEN ParseI64(rotation_time).value * 60
    ELSE IF TimeStringToSec(rotation_time, now) >= 0
    THEN TimeStringToSec(rotation_time, now)
    ELSE 3600

\* serve() without the test for rotation_time "0".
AfterStartAllAlwaysRotate ==
    /\ s_pc' = "rot_sleep"
    /\ \E now \in ClockSamples :
         secs' = CalculateNextRotationSeconds(config.rotation_time, now)

\* start_all has returned to serve(): with rotation_time "0" serve() idles for
\* good, otherwise it computes the interval and sleeps.
AfterStartAll ==
    IF config.rotation_time = <<"0">>
    THEN /\ s_pc' = "idle"
         /\ secs' = NoSecs
    ELSE /\ s_pc' = "rot_sleep"
         /\ \E now \in ClockSamples :
              secs' = CalculateNextRotationSeconds(config.rotation_time, now)

\* The order in which a HashMap might hand out the keys: descending here.
RECURSIVE KeyOrderDescending(_)
KeyOrderDescending(S) ==
    IF S = {} THEN <<>>
    ELSE LET m == CHOOSE x \in S : \A y \in S : x >= y
         IN <<m>> \o KeyOrderDescending(S \ {m})

\* controls.iter(): the registered interfaces in the map's key order.
ControlsOrder(S) == KeyOrder(S)

\* serve(), spawned once the clients are registered, enters start_all (at
\* startup, and as the up-phase of rotate_ips): lock the channel map and start
\* iterating in key order.
StartAllLock ==
    /\ main_pc = "running"
    /\ s_pc \in {"start", "rot_wait"}
    /\ controls_lock = "free"
    /\ IF client_controls = {}
       THEN /\ AfterStartAll
            /\ s_log' = <<>>
            /\ UNCHANGED <<controls_lock, s_todo>>
       ELSE /\ controls_lock' = "serve"
            /\ s_todo' = ControlsOrder(client_controls)
            /\ s_pc' = "sa_send"
            /\ UNCHANGED <<secs, s_log>>
    /\ UNCHANGED <<cfgVars, cmd_chan, events, clientVars, reader_pending, regVars,
                   evVars, taskVars, histVars>>

\* start_all: tx.send(Connect).await to the next client.
StartAllSend ==
    /\ s_pc = "sa_send"
    /\ Len(cmd_chan[Head(s_todo)]) < config.cmd_cap
    /\ cmd_chan' = [cmd_chan EXCEPT ![Head(s_todo)] = Append(@, "Connect")]
    /\ s_log' = Append(s_log, <<"Connect", Head(s_todo)>>)
    /\ s_pc' = "sa_sleep"
    /\ UNCHANGED <<cfgVars, events, clientVars, reader_pending, regVars,
                   controls_lock, evVars, taskVars, s_todo, secs, histVars>>

\* start_all: the 100 ms sleep after a send is over; after the last client the
\* channel map is released and start_all returns.
StartAllSleep ==
    /\ s_pc = "sa_sleep"
    /\ s_todo' = Tail(s_todo)
    /\ IF Tail(s_todo) = <<>>
       THEN /\ controls_lock' = "free"
            /\ AfterStartAll
            /\ s_log' = <<>>
       ELSE /\ s_pc' = "sa_send"
            /\ UNCHANGED <<controls_lock, secs, s_log>>
    /\ UNCHANGED <<cfgVars, cmd_chan, events, clientVars, reader_pending, regVars,
                   evVars, taskVars, histVars>>

\* The rotation interval is over: rotate_ips enters stop_all and locks the
\* channel map.
StopAllLock ==
    /\ s_pc = "rot_sleep"
    /\ controls_lock = "free"
    /\ secs' = NoSecs
    /\ IF client_controls = {}
       THEN /\ s_pc' = "rot_wait"
            /\ UNCHANGED <<controls_lock, s_todo>>
       ELSE /\ controls_lock' = "serve"
            /\ s_todo' = ControlsOrder(client_controls)
            /\ s_pc' = "so_send"
    /\ UNCHANGED <<cfgVars, cmd_chan, events, clientVars, reader_pending, regVars,
                   evVars, taskVars, s_log, histVars>>

\* stop_all returning after its first send.
StopAllSendEarlyReturn ==
    /\ s_pc = "so_send"
    /\ Len(cmd_chan[Head(s_todo)]) < config.cmd_cap
    /\ cmd_chan' = [cmd_chan EXCEPT ![Head(s_todo)] = Append(@, "Disconnect")]
    /\ s_log' = Append(s_log, <<"Disconnect", Head(s_todo)>>)
    /\ s_todo' = <<>>
    /\ controls_lock' = "free"
    /\ s_pc' = "rot_wait"
    /\ UNCHANGED <<cfgVars, events, clientVars, reader_pending, regVars, evVars,
                   taskVars, secs, histVars>>

\* stop_all: tx.send(Disconnect).await to the next client; after the last one
\* the channel map is released and rotate_ips sleeps wait_seconds.
StopAllSend ==
    /\ s_pc = "so_send"
    /\ Len(cmd_chan[Head(s_todo)]) < config.cmd_cap
    /\ cmd_chan' = [cmd_chan EXCEPT ![Head(s_todo)] = Append(@, "Disconnect")]
    /\ s_log' = Append(s_log, <<"Disconnect", Head(s_todo)>>)
    /\ s_todo' = Tail(s_todo)
    /\ IF Tail(s_todo) = <<>>
       THEN /\ controls_lock' = "free"
            /\ s_pc' = "rot_wait"
       ELSE UNCHANGED <<controls_lock, s_pc>>
    /\ UNCHANGED <<cfgVars, events, clientVars, reader_pending, regVars, evVars,
                   taskVars, secs, histVars>>

\* ------------------------------------------------------- stats collector
\* StatsUpdated computing the uptime whether or not connected_at is set.
StatsUpdatedAlwaysUptime(info) ==
    [info EXCEPT !.traffic = "Sampled", !.uptime_seconds = "Computed"]

\* What one tick of the stats task stores in an entry whose interface has
\* kernel counters: the rates and totals, and the uptime when connected.
StatsUpdated(info) ==
    [info EXCEPT !.traffic = "Sampled",
                 !.uptime_seconds = IF info.connected_at # "None"
                                    THEN "Computed" ELSE @]

\* One tick of the stats task; present: the interfaces the kernel knows.
StatsTick ==
    /\ data_lock = "free"
    /\ \E present \in SUBSET Ifaces :
         data' = [k \in DOMAIN data |->
                    IF k \in present THEN StatsUpdated(data[k]) ELSE data[k]]
    /\ UNCHANGED <<cfgVars, cmd_chan, events, clientVars, reader_pending,
                   data_lock, controls_lock, evVars, taskVars, serveVars, histVars>>

\* ------------------------------------------------------------------ system
\* The state once start_clients has registered n clients and spawned their
\* tasks, with the configuration the manager and the clients were built with.
\* cmd_cap, event_cap: the capacities of the channels; fail_cap: the value at
\* which the model stops failing probes (it bounds consecutive_failures).
\* evs: the events already on the event channel.
Constructed(n, max_attempts, threshold, fail_cap, rotation_time, cmd_cap, event_cap, evs) ==
    /\ config = [session_count |-> n,
                 cmd_cap |-> cmd_cap,
                 event_cap |-> event_cap,
                 fail_cap |-> fail_cap,
                 max_reconnect_attempts |-> max_attempts,
                 health_check_failure_threshold |-> threshold,
                 rotation_time |-> rotation_time]
    /\ client_controls = 0 .. (n - 1)
    /\ cmd_chan = [i \in 0 .. (n - 1) |-> <<>>]
    /\ events = evs
    /\ cpc = [i \in 0 .. (n - 1) |-> "init"]
    /\ should_be_connected = [i \in 0 .. (n - 1) |-> FALSE]
    /\ reconnect_attempts = [i \in 0 .. (n - 1) |-> 0]
    /\ pppd = [i \in 0 .. (n - 1) |-> "None"]
    /\ children = [i \in 0 .. (n - 1) |-> 0]
    /\ reader_pending = [i \in 0 .. (n - 1) |-> 0]
    /\ data = <<>>
    /\ data_lock = "free"
    /\ controls_lock = "free"
    /\ ev_pc = "recv"
    /\ ev_cur = NoEvent
    /\ route_cmd = NoRoute
    /\ tpc = [t \in Tasks |-> IF t = "health" THEN "sleep" ELSE "idle"]
    /\ tloc = [t \in Tasks |-> IdleLoc]
    /\ h_todo = <<>>
    /\ s_pc = "start"
    /\ s_todo = <<>>
    /\ secs = NoSecs
    /\ s_log = <<>>
    /\ hs_sent = [i \in 0 .. (n - 1) |-> 0]
    /\ hs_fails = [i \in 0 .. (n - 1) |-> 0]
    /\ proxy = [config_json |-> ConfigJson(n), process |-> 0, guard_task |-> 0]
    /\ proxy_lock = "free"
    /\ gost = {}
    /\ gost_spawned = 0
    /\ guard = NoGuard
    /\ start_task = "pending"
    /\ stop_pc = "idle"

\* The state once main has loaded the configuration from an environment that
\* names n sessions and the rotation time, and start_clients has run.
InitFrom(n, max_attempts, threshold, fail_cap, rotation_time, cmd_cap, event_cap, evs) ==
    /\ env = [PPPOE_SESSION_COUNT |-> ToDecimal(n),
              IP_ROTATION_TIME |-> rotation_time,
              required_set |-> TRUE,
              ip_can_fail |-> FALSE]
    /\ main_pc = "running"
    /\ Constructed(n, max_attempts, threshold, fail_cap, rotation_time, cmd_cap,
                   event_cap, evs)

InitWith(n, max_attempts, threshold, fail_cap, rotation_time, cmd_cap, event_cap) ==
    InitFrom(n, max_attempts, threshold, fail_cap, rotation_time, cmd_cap,
             event_cap, <<>>)

ClientNext ==
    \E i \in Ifaces :
        \/ ClientStart(i)
        \/ ClientCommand(i)
        \/ ClientReconnectWake(i)
        \/ ClientChildExit(i)
        \/ ClientExitSend(i)
        \/ ClientBackoffWake(i)
        \/ DialerPrintIp(i)
        \/ ReaderSend(i)
        \/ DialerExit(i)

EventNext == EvRecv \/ EvLock \/ EvRouteDone

CtlNext == CtlCall \/ CmdSend("ctl") \/ CtlReply

CtlHealthNext == CtlHealthcheck \/ UpdateHealthStatus("ctl") \/ CmdLock("ctl")

CtlHealthOnlyNext == CtlHealthNext \/ CmdSend("ctl") \/ CtlReply

HealthNext ==
    \/ HealthWake
    \/ UpdateHealthStatus("health")
    \/ CmdLock("health")
    \/ CmdSend("health")

ServeNext ==
    StartAllLock \/ StartAllSend \/ StartAllSleep \/ StopAllLock \/ StopAllSend

\* ---------------------------------------------------------- specifications
\* One session, its client and dialer, the event loop and the control surface
\* issuing connect / disconnect / reconnect.
Init ==
    InitWith(DefaultSessionCount, MaxAttempts, MaxThreshold, MaxThreshold + 1, <<"1">>,
             CmdCap, EventCap)

Next == ClientNext \/ EventNext \/ CtlNext

Spec == Init /\ [][Next]_vars

\* One session with the liveness loop as the only caller of
\* update_health_status, for every threshold up to MaxThreshold.
InitLiveness ==
    \E T \in 1 .. MaxThreshold :
        InitWith(DefaultSessionCount, MaxAttempts, T, T + ExtraFailures, <<"1">>,
                 CmdCap, EventCap)

NextLiveness == ClientNext \/ EventNext \/ HealthNext

SpecLiveness == InitLiveness /\ [][NextLiveness]_vars

\* The writers of the registry: event loop, liveness loop, the control
\* surface's healthcheck and the stats task, with channels of capacity SystemCap.
InitRegistry ==
    InitWith(DefaultSessionCount, 1, MaxThreshold, MaxThreshold + 1, <<"1">>,
             SystemCap, SystemCap)

NextRegistry ==
    ClientNext \/ EventNext \/ HealthNext \/ CtlHealthOnlyNext \/ StatsTick

SpecRegistry == InitRegistry /\ [][NextRegistry]_vars

\* serve(): the start-up start_all and the rotation cycles, with the liveness
\* loop running.
InitRotation ==
    InitWith(DefaultSessionCount, 1, MaxThreshold, MaxThreshold + 1, <<"1">>,
             CmdCap, EventCap)

NextRotation == ClientNext \/ EventNext \/ ServeNext \/ HealthNext

SpecRotation == InitRotation /\ [][NextRotation]_vars

\* Every task of the system, with channels of capacity SystemCap: the clients,
\* the event loop, the liveness loop, the stats task, serve() and the control
\* surface's connect / disconnect / reconnect.
InitSystem == InitWith(DefaultSessionCount, 1, 1, 2, <<"1">>, SystemCap, SystemCap)

NextSystem ==
    ClientNext \/ EventNext \/ CtlNext \/ HealthNext \/ ServeNext \/ StatsTick

SpecSystem == InitSystem /\ [][NextSystem]_vars

\* One session whose client is sent no command: the client with the
\* max_reconnect_attempts of the code, its dialers and readers, the event loop.
ClientAutoNext ==
    \E i \in Ifaces :
        \/ ClientStart(i)
        \/ ClientChildExit(i)
        \/ ClientExitSend(i)
        \/ ClientBackoffWake(i)
        \/ DialerPrintIp(i)
        \/ ReaderSend(i)
        \/ DialerExit(i)

InitAuto ==
    InitWith(DefaultSessionCount, MaxReconnectAttempts, MaxThreshold,
             MaxThreshold + 1, <<"1">>, CmdCap, EventCap)

NextAuto == ClientAutoNext \/ EventNext

SpecAuto == InitAuto /\ [][NextAuto]_vars

\* A fleet of FleetSize sessions with serve(): the start-up start_all and the
\* rotation cycles, the clients and the event loop.
InitFleet ==
    InitWith(FleetSize, 1, MaxThreshold, MaxThreshold + 1, <<"1">>, SystemCap,
             SystemCap)

NextFleet == ClientNext \/ EventNext \/ ServeNext

SpecFleet == InitFleet /\ [][NextFleet]_vars

\* Start-up: main loads the configuration from the environment, registers and
\* spawns the clients, and each client makes its initial connect.
SessionCountInputs ==
    {ToDecimal(k) : k \in 0 .. MaxLoadCount}
        \cup {NotSet, <<>>, <<"x">>, <<"+", "3">>, <<"0", "7">>, <<"-", "1">>,
              <<"6", "5", "5", "3", "5">>, <<"6", "5", "5", "3", "6">>}

RotationTimeInputs ==
    {NotSet, <<"0">>, <<"1", "0">>, <<"0", "3", ":", "3", "0">>,
     <<"2", "5", ":", "0", "0">>}

InitLoad ==
    /\ env \in [PPPOE_SESSION_COUNT : SessionCountInputs,
                 IP_ROTATION_TIME : RotationTimeInputs,
                 required_set : BOOLEAN,
                 ip_can_fail : {FALSE}]
    /\ main_pc = "load"
    /\ Constructed(0, MaxReconnectAttempts, MaxThreshold, MaxThreshold + 1, <<>>,
                   CmdCap, EventCap, <<>>)

NextLoad == Load \/ StartClients \/ ClientBoot

SpecLoad == InitLoad /\ [][NextLoad]_vars

\* serve() with rotation disabled ("0"), with zero minutes written "00", and
\* with one minute: one session, its client and the event loop.
InitDisabled ==
    \E rotation_time \in {<<"0">>, <<"0", "0">>, <<"1">>} :
        InitWith(DefaultSessionCount, 1, MaxThreshold, MaxThreshold + 1,
                 rotation_time, CmdCap, EventCap)

NextDisabled == ClientNext \/ EventNext \/ ServeNext

SpecDisabled == InitDisabled /\ [][NextDisabled]_vars

\* The proxy child and its supervision by start / guard / stop, for every
\* session count load accepts.
InitProxy ==
    \E n \in 0 .. MaxSessionCount :
        InitWith(n, MaxReconnectAttempts, MaxThreshold, MaxThreshold + 1, <<"1">>,
                 CmdCap, EventCap)

NextProxy == ProxyNext

SpecProxy == InitProxy /\ [][NextProxy]_vars

\* The clients outliving the manager: one session, its client, the event
\* loop and the control surface until the manager is dropped, the client alone
\* afterwards.
ClientClosedNext == \E i \in Ifaces : ClientAllDisabled(i)

InitShutdown ==
    InitWith(DefaultSessionCount, MaxAttempts, MaxThreshold, MaxThreshold + 1,
             <<"1">>, CmdCap, EventCap)

NextShutdown ==
    \/ ClientNext
    \/ ClientClosedNext
    \/ DropManager
    \/ ~ManagerDropped /\ (EventNext \/ CtlNext)

SpecShutdown == InitShutdown /\ [][NextShutdown]_vars

\* The rotation scheduler on its own: main loads a configuration with no
\* session and any IP_ROTATION_TIME of up to MaxTimeLen characters, and serve()
\* runs its start_all and rotation cycles over the empty fleet.
TimeChars == {"0", "1", "2", "6", ":", "+", "-"}

RotationTimeStrings == UNION {[1 .. n -> TimeChars] : n \in 0 .. MaxTimeLen}

InitSchedule ==
    /\ env \in [PPPOE_SESSION_COUNT : {<<"0">>},
                 IP_ROTATION_TIME : RotationTimeStrings,
                 required_set : {TRUE},
                 ip_can_fail : {FALSE}]
    /\ main_pc = "load"
    /\ Constructed(0, MaxReconnectAttempts, MaxThreshold, MaxThreshold + 1, <<>>,
                   CmdCap, EventCap, <<>>)

NextSchedule == Load \/ StartClients \/ StartAllLock \/ StopAllLock

SpecSchedule == InitSchedule /\ [][NextSchedule]_vars

\* update_connection_info on its own: the event loop applies one event, of
\* either type, for an interface ppp<d> with d up to MaxIndex.
InitRoute ==
    \E d \in 0 .. MaxIndex :
        \E e \in {IpUpdated(d), Disconnected(d)} :
            InitFrom(DefaultSessionCount, MaxAttempts, MaxThreshold,
                     MaxThreshold + 1, <<"1">>, CmdCap, EventCap, <<e>>)

NextRoute == EventNext

SpecRoute == InitRoute /\ [][NextRoute]_vars

\* The writers of the registry with two sessions: the event loop applying a
\* stream of up to MaxEvents events the two clients sent, the stats task and
\* the control surface's healthcheck.
EventStreams ==
    UNION {[1 .. n -> UNION {{IpUpdated(i), Disconnected(i)} : i \in 0 .. (FleetSize - 1)}] :
             n \in 0 .. MaxEvents}

InitEntries ==
    \E evs \in EventStreams :
        /\ env = [PPPOE_SESSION_COUNT |-> ToDecimal(FleetSize),
                  IP_ROTATION_TIME |-> <<"1">>,
                  required_set |-> TRUE,
                  ip_can_fail |-> TRUE]
        /\ main_pc = "running"
        /\ Constructed(FleetSize, 1, 1, 2, <<"1">>, CmdCap, MaxEvents, evs)

NextEntries == EventNext \/ StatsTick \/ CtlHealthOnlyNext

SpecEntries == InitEntries /\ [][NextEntries]_vars

\* ------------------------------------------------------------------ claims
Max(a, b) == IF a >= b THEN a ELSE b

\* C1: for every configured session there is one client, one registered
\* command channel, and at most one live dialer process, which is the child
\* the client holds.
C1_OneClientOneChannelOneDialer ==
    /\ client_controls = Ifaces
    /\ DOMAIN cmd_chan = Ifaces
    /\ DOMAIN cpc = Ifaces
    /\ \A i \in Ifaces :
         /\ children[i] \in {0, 1}
         /\ children[i] = 1 <=> pppd[i] = "Running"

\* A dialer respawned after a backoff is alive while a command is queued.
C1_Witness ==
    \E i \in Ifaces :
        /\ children[i] = 1
        /\ reconnect_attempts[i] >= 1
        /\ cmd_chan[i] # <<>>

\* The client takes the command at the head of its channel in this step.
TakesCommand(i, c) ==
    /\ cpc[i] = "select"
    /\ cmd_chan[i] # <<>>
    /\ Head(cmd_chan[i]) = c
    /\ cmd_chan'[i] = Tail(cmd_chan[i])

\* C2: a client that processes Disconnect sets intent Down, resets the
\* backoff counter, holds no child afterwards and emits Disconnected for its
\* interface (the event that makes the event loop clear local_ip and
\* connected_at).
C2_DisconnectEmitsDisconnected ==
    [][\A i \in Ifaces :
         TakesCommand(i, "Disconnect") =>
            /\ ~should_be_connected'[i]
            /\ reconnect_attempts'[i] = 0
            /\ pppd'[i] = "None"
            /\ children'[i] = 0
            /\ events' = Append(events, Disconnected(i))]_vars

\* The rotation's quiescence window: stop_all has returned, start_all has not
\* sent yet.
InWindow == s_pc = "rot_wait"

\* C3: in the quiescence window of rotate_ips no client holds a live dialer.
\* Stated for the clients that have drained their command channel and are back
\* at the top of their loop, so that the time a client needs to take the
\* Disconnect is not held against the claim.
C3_QuiescenceWindowNoDialer ==
    InWindow =>
        \A i \in Ifaces :
            (cpc[i] = "select" /\ cmd_chan[i] = <<>>) => children[i] = 0

\* C4: a client with intent Up that is back at the top of its loop holds a
\* child: a failed spawn leaves it in the backoff sleep, not idle.
C4_SpawnFailureSchedulesBackoff ==
    \A i \in Ifaces :
        (cpc[i] = "select" /\ should_be_connected[i]) => pppd[i] # "None"

\* Reconnect commands of update_health_status for interface i that are decided
\* and not yet on the channel.
InFlight(i) ==
    Cardinality({t \in Tasks : /\ tpc[t] \in {"cmd_lock", "send"}
                               /\ tloc[t].origin = "uhs"
                               /\ tloc[t].iface = i})

\* C5: after k consecutive update_health_status(iface, false) calls the counter
\* is k and max(0, k - T + 1) Reconnect commands were sent to the interface.
C5_FailuresAndReconnects ==
    \A i \in DOMAIN data :
        /\ data[i].consecutive_failures = hs_fails[i]
        /\ hs_sent[i] + InFlight(i)
             = Max(0, hs_fails[i] - config.health_check_failure_threshold + 1)

\* Two failures past the first trigger: every one of them sent a Reconnect.
C5_Witness ==
    \E i \in DOMAIN data :
        /\ hs_fails[i] = config.health_check_failure_threshold + 1
        /\ hs_sent[i] = 2

\* C6: is_healthy implies consecutive_failures = 0 in every entry.
C6_HealthyMeansNoFailures ==
    \A i \in DOMAIN data :
        data[i].is_healthy => data[i].consecutive_failures = 0

\* A healthy entry that a Disconnected event and a stats tick have gone over.
C6_Witness ==
    \E i \in DOMAIN data :
        /\ data[i].is_healthy
        /\ data[i].local_ip = "None"
        /\ data[i].traffic = "Sampled"

\* C7 (state part): with the registry unlocked, local_ip is set iff
\* connected_at is.
C7_IpIffConnectedAt ==
    data_lock = "free" =>
        \A i \in DOMAIN data :
            data[i].local_ip # "None" <=> data[i].connected_at # "None"

\* C7: local_ip is set iff connected_at is whenever the registry is unlocked;
\* applying Disconnected clears both within the one critical section of the
\* event loop, and local_ip leaves None only when the event loop applies an
\* IpUpdated of that interface.
C7_ConnectionFieldsInStep ==
    /\ []C7_IpIffConnectedAt
    /\ [][\A i \in DOMAIN data :
            /\ (ev_pc = "route" /\ ev_pc' = "recv" /\ ev_cur = Disconnected(i))
                  => /\ data_lock = "event"
                     /\ data'[i].local_ip = "None"
                     /\ data'[i].connected_at = "None"
            /\ (data[i].local_ip = "None" /\ data'[i].local_ip # "None")
                  => (ev_pc = "route" /\ ev_cur = IpUpdated(i))]_vars

\* An entry that was connected (it was probed), cleared by a Disconnected.
C7_Witness ==
    \E i \in DOMAIN data :
        /\ data_lock = "free"
        /\ data[i].last_health_check = "Some"
        /\ data[i].local_ip = "None"
        /\ data[i].connected_at = "None"

\* C8: while the Disconnect of stop_all is the next command a client will
\* take, the client spawns no dialer.
C8_NoSpawnBeforeDisconnect ==
    [][\A i \in Ifaces :
         (cmd_chan[i] # <<>> /\ Head(cmd_chan[i]) = "Disconnect")
            => children'[i] <= children[i]]_vars

\* The wait-for graph.  A node is <<"client", i>> or <<task, 0>>.
Nodes ==
    {<<"client", i>> : i \in Ifaces}
        \cup {<<t, 0>> : t \in {"event", "health", "ctl", "serve", "stats"}}

\* The tasks node n cannot proceed without: the holder of the lock it is
\* acquiring, the receiver of the full channel it is sending on.
WaitsFor(n) ==
    IF n[1] = "client"
    THEN IF cpc[n[2]] = "exit_send" /\ Len(events) >= config.event_cap
         THEN {<<"event", 0>>} ELSE {}
    ELSE IF n[1] = "event"
    THEN IF ev_pc = "lock" /\ data_lock # "free"
         THEN {<<data_lock, 0>>} ELSE {}
    ELSE IF n[1] \in Tasks
    THEN IF tpc[n[1]] = "probe" /\ data_lock # "free"
         THEN {<<data_lock, 0>>}
         ELSE IF tpc[n[1]] = "cmd_lock" /\ controls_lock # "free"
         THEN {<<controls_lock, 0>>}
         ELSE IF tpc[n[1]] = "send"
                 /\ Len(cmd_chan[tloc[n[1]].iface]) >= config.cmd_cap
         THEN {<<"client", tloc[n[1]].iface>>}
         ELSE {}
    ELSE IF n[1] = "serve"
    THEN IF s_pc \in {"sa_send", "so_send"}
            /\ Len(cmd_chan[Head(s_todo)]) >= config.cmd_cap
         THEN {<<"client", Head(s_todo)>>}
         ELSE IF s_pc \in {"start", "rot_sleep", "rot_wait"}
                 /\ controls_lock # "free"
         THEN {<<controls_lock, 0>>}
         ELSE {}
    ELSE {}

RECURSIVE Reach(_, _)
Reach(frontier, seen) ==
    IF frontier \subseteq seen THEN seen
    ELSE Reach(UNION {WaitsFor(n) : n \in frontier}, seen \cup frontier)

NoWaitCycle == \A n \in Nodes : n \notin Reach(WaitsFor(n), {})

\* C9: no task holds the registry lock while its probe runs, and the wait-for
\* graph of the tasks has no cycle.
C9_NoLockAcrossProbeNoDeadlock ==
    /\ \A t \in Tasks : tpc[t] = "probe" => data_lock # t
    /\ NoWaitCycle

\* The liveness loop probes while the event loop holds the registry and the
\* control surface waits, channel map locked, on a full command channel.
C9_Witness ==
    /\ tpc["health"] = "probe"
    /\ data_lock = "event"
    /\ WaitsFor(<<"ctl", 0>>) # {}

\* C10: no task holds the command-channel map mutex while it is blocked in a
\* channel send or while it sleeps.
C10_NoChannelMapLockAcrossAwait ==
    /\ \A t \in Tasks :
         controls_lock = t =>
            ~(tpc[t] = "send" /\ Len(cmd_chan[tloc[t].iface]) >= config.cmd_cap)
    /\ controls_lock = "serve" =>
         /\ s_pc # "sa_sleep"
         /\ ~(s_pc \in {"sa_send", "so_send"}
              /\ Len(cmd_chan[Head(s_todo)]) >= config.cmd_cap)

\* C11: no task holds the registry mutex while an external process it spawned
\* runs: not the event loop while `ip route add` runs, not a prober while its
\* ping runs.
C11_NoRegistryLockAcrossRouteAdd ==
    /\ ev_pc = "route" => data_lock # "event"
    /\ \A t \in Tasks : tpc[t] = "probe" => data_lock # t

\* A Reconnect decided by update_health_status is on its way: the task is in
\* reconnect_client, before or at the send.
SendingReconnect(t) ==
    /\ tpc[t] \in {"cmd_lock", "send"}
    /\ tloc[t].origin = "uhs"

\* C12: a task that update_health_status made send Reconnect does not hold the
\* registry mutex while it is in reconnect_client.
C12_RegistryReleasedBeforeReconnect ==
    \A t \in Tasks : SendingReconnect(t) => data_lock # t

\* The Reconnect of update_health_status waits on a full command channel while
\* the event loop holds the registry.
C12_Witness ==
    \E t \in Tasks :
        /\ SendingReconnect(t)
        /\ tpc[t] = "send"
        /\ Len(cmd_chan[tloc[t].iface]) >= config.cmd_cap
        /\ data_lock = "event"

\* C13: no task holds the registry mutex and the command-channel map mutex at
\* the same time.
C13_NeverBothMutexes ==
    controls_lock # "free" => data_lock # controls_lock

\* update_health_status has taken the channel map for its Reconnect, and the
\* registry it released is held by the event loop.
C13_Witness ==
    /\ controls_lock = "health"
    /\ tloc["health"].origin = "uhs"
    /\ data_lock = "event"

\* C14: when the client places the Disconnected of a dialer's exit in the
\* event stream, no IP line a reader parsed for that interface is still
\* unsent: the IpUpdated of a dialer run precedes the Disconnected of its exit.
\* Checked for clients that are sent no command, where every dialer run ends
\* by its own exit.
C14_IpUpdatedBeforeDisconnected ==
    [][\A i \in Ifaces :
         events' = Append(events, Disconnected(i)) => reader_pending[i] = 0]_vars

\* C15: a client takes a command only at the top of its loop, and it is the
\* oldest one of its channel, which it then handles; a handler under way
\* (the Reconnect pause, the exit arm's send and backoff) runs on to the top of
\* the loop with no command taken and no dialer exit handled in between.
C15_OneAtATimeInOrder ==
    [][\A i \in Ifaces :
         /\ cmd_chan'[i] # cmd_chan[i] =>
              \/ \E c \in Commands : cmd_chan'[i] = Append(cmd_chan[i], c)
              \/ /\ cpc[i] = "select"
                 /\ cmd_chan[i] # <<>>
                 /\ cmd_chan'[i] = Tail(cmd_chan[i])
                 /\ should_be_connected'[i] = (Head(cmd_chan[i]) # "Disconnect")
                 /\ cpc'[i] = "reconnect_sleep" <=> Head(cmd_chan[i]) = "Reconnect"
         /\ cpc[i] \in {"reconnect_sleep", "backoff_sleep"} =>
              /\ cpc'[i] \in {cpc[i], "select"}
              /\ Len(cmd_chan'[i]) >= Len(cmd_chan[i])
         /\ cpc[i] = "exit_send" =>
              /\ cpc'[i] \in {"exit_send", "select", "backoff_sleep"}
              /\ Len(cmd_chan'[i]) >= Len(cmd_chan[i])
         /\ (cpc'[i] = "exit_send" /\ cpc[i] # "exit_send") =>
              (cpc[i] = "select" /\ cmd_chan'[i] = cmd_chan[i])]_vars

\* A client in the pause of a Reconnect with two different commands waiting.
C15_Witness ==
    \E i \in Ifaces :
        /\ cpc[i] = "reconnect_sleep"
        /\ Len(cmd_chan[i]) = 2
        /\ cmd_chan[i][1] # cmd_chan[i][2]

\* The client is idle: intent Down, no child held, no dialer alive, counter 0.
IdleClient(i) ==
    /\ cpc[i] = "select"
    /\ ~should_be_connected[i]
    /\ pppd[i] = "None"
    /\ children[i] = 0
    /\ reconnect_attempts[i] = 0

\* C16: a Disconnect taken by an idle client leaves it idle and emits one
\* Disconnected event for its interface.
C16_DisconnectIdempotent ==
    [][\A i \in Ifaces :
         (IdleClient(i) /\ TakesCommand(i, "Disconnect")) =>
            /\ IdleClient(i)'
            /\ events' = Append(events, Disconnected(i))]_vars

\* C16 (client state only): a Disconnect taken by an idle client leaves it idle.
C16_DisconnectKeepsIdle ==
    [][\A i \in Ifaces :
         (IdleClient(i) /\ TakesCommand(i, "Disconnect")) => IdleClient(i)']_vars

\* C17: connect_client, disconnect_client and reconnect_client go on to send
\* only for a registered name; for any other name they return the not-found
\* error, and that call changes nothing else: no command is sent, no lock stays
\* taken, the registry, the channel map and the clients are as before.
C17_UnknownInterfaceNoEffect ==
    [][\A t \in Tasks :
         /\ (tpc[t] # "reply_err" /\ tpc'[t] = "reply_err") =>
               UNCHANGED <<cmd_chan, events, data, client_controls, data_lock,
                           controls_lock, clientVars>>
         /\ tpc'[t] = "send" => tloc'[t].iface \in client_controls]_vars

\* The not-found error is being returned while a command is queued for the
\* registered client and the registry has an entry.
C17_Witness ==
    /\ tpc["ctl"] = "reply_err"
    /\ cmd_chan[0] # <<>>
    /\ data # <<>>

\* The delays, in seconds, of the first 8 automatic respawns.
BackoffSequence == <<5, 10, 15, 20, 25, 30, 30, 30>>

\* C18: a client that is sent no command starts with the counter at 0; every
\* dialer exit it handles with intent Up raises the counter by one, no other
\* step changes it, and the delay it then waits is the entry of the sequence
\* 5, 10, 15, 20, 25, 30, 30, 30 at the counter's new value.
C18_BackoffSequence ==
    /\ \A i \in Ifaces : reconnect_attempts[i] = 0
    /\ [][\A i \in Ifaces :
            IF cpc'[i] = "backoff_sleep" /\ cpc[i] # "backoff_sleep"
            THEN /\ reconnect_attempts'[i] = reconnect_attempts[i] + 1
                 /\ reconnect_attempts'[i] <= Len(BackoffSequence) =>
                      BackoffDelay(i)' = BackoffSequence[reconnect_attempts'[i]]
            ELSE reconnect_attempts'[i] = reconnect_attempts[i]]_vars

\* The client waits out the delay of its eighth respawn in a row.
C18_Witness ==
    \E i \in Ifaces :
        /\ cpc[i] = "backoff_sleep"
        /\ reconnect_attempts[i] = Len(BackoffSequence)
        /\ BackoffDelay(i) = 30

\* C19: once the last of the max_reconnect_attempts automatic respawn attempts
\* has failed, by the dialer's exit or by a failed spawn, and the client is back
\* at the top of its loop with no child, its intent is latched Down. Checked
\* for clients that are sent no command.
C19_LatchAfterMaxAttempts ==
    \A i \in Ifaces :
        (/\ config.max_reconnect_attempts > 0
         /\ reconnect_attempts[i] = config.max_reconnect_attempts
         /\ cpc[i] = "select"
         /\ pppd[i] = "None") => ~should_be_connected[i]

\* C19 (exits only): a dialer exit handled with the counter at
\* max_reconnect_attempts latches the intent Down and schedules no respawn.
C19_LatchOnExitAtMax ==
    [][\A i \in Ifaces :
         (/\ cpc[i] = "exit_send" /\ cpc'[i] # "exit_send"
          /\ should_be_connected[i]
          /\ reconnect_attempts[i] = config.max_reconnect_attempts)
            => (~should_be_connected'[i] /\ cpc'[i] = "select"
                /\ children'[i] = 0)]_vars

\* C20: the route update_connection_info installs for the IpUpdated of ppp<d>
\* names that interface and table 101 + d, for every d up to MaxIndex (one,
\* two and three digits); over a fleet of the largest accepted size the tables
\* are pairwise distinct and none is the uplink's table.
C20_TableFromWholeSuffix ==
    /\ (ev_pc = "route" /\ ev_cur.type = "IpUpdated") =>
          /\ route_cmd.dev = InterfaceName(ev_cur.interface)
          /\ route_cmd.table = 101 + ev_cur.interface
    /\ \A i, j \in 0 .. (MaxSessionCount - 1) :
          /\ AddDefaultRoute(InterfaceName(i)).table # UplinkTable
          /\ i # j => AddDefaultRoute(InterfaceName(i)).table
                         # AddDefaultRoute(InterfaceName(j)).table

\* The route of an IpUpdated for an interface with a three-digit suffix that
\* ends in 0 is being installed.
C20_Witness ==
    /\ ev_pc = "route"
    /\ ev_cur.type = "IpUpdated"
    /\ Len(route_cmd.dev) = 6
    /\ route_cmd.dev[6] = "0"
    /\ route_cmd.table > 201

\* The number the environment gives as PPPOE_SESSION_COUNT, -1 when the value
\* is no number (the default when the variable is not set).
RequestedSessions ==
    IF env.PPPOE_SESSION_COUNT = NotSet THEN DefaultSessionCount
    ELSE ParseUnsigned(env.PPPOE_SESSION_COUNT)

\* C21: when PPPOE_SESSION_COUNT is greater than 7, load returns an error and
\* no client is ever registered or started; every configuration load accepts
\* has session_count <= 7, the number the environment gave.
C21_SessionCountBounded ==
    /\ RequestedSessions > 7 =>
          /\ main_pc \in {"load", "failed"}
          /\ client_controls = {}
          /\ DOMAIN cpc = {}
          /\ DOMAIN children = {}
    /\ main_pc \in {"loaded", "running"} =>
          /\ config.session_count <= 7
          /\ config.session_count = RequestedSessions
          /\ main_pc = "running" => client_controls = 0 .. (config.session_count - 1)

\* load has rejected an otherwise valid environment that asks for 8 sessions.
C21_Witness ==
    /\ main_pc = "failed"
    /\ RequestedSessions = 8
    /\ env.required_set
    /\ env.IP_ROTATION_TIME = <<"1", "0">>

\* The broadcast of command c to the registered clients ppp0, ppp1, ... in
\* that order, one send each.
Broadcast(c) == [k \in 1 .. Cardinality(client_controls) |-> <<c, k - 1>>]

\* The Connect sends of the log, in their order.
ConnectsOf(log) == SelectSeq(log, LAMBDA e : e[1] = "Connect")

\* C22: when start_all returns it has sent exactly one Connect to every
\* registered client, in the order ppp0, ppp1, ..., at start-up and in every
\* rotation alike; every send it logs put the Connect on that client's
\* channel and is followed by the 100 ms sleep, during which nothing is sent.
C22_StartAllOrderedStaggered ==
    [][/\ (s_pc = "sa_sleep" /\ s_pc' \in {"rot_sleep", "idle"}) =>
             ConnectsOf(s_log) = Broadcast("Connect")
       /\ \A i \in Ifaces :
             s_log' = Append(s_log, <<"Connect", i>>) =>
                /\ s_pc = "sa_send" /\ s_pc' = "sa_sleep"
                /\ cmd_chan'[i] = Append(cmd_chan[i], "Connect")
       /\ s_pc = "sa_sleep" => s_log' \in {s_log, <<>>}]_vars

\* start_all is in the sleep after its last send of a rotation's up-phase,
\* while the first client has already taken its Connect and dialled.
C22_Witness ==
    /\ s_pc = "sa_sleep"
    /\ Len(s_todo) = 1
    /\ Len(s_log) = 2 * FleetSize
    /\ children[0] = 1
    /\ cmd_chan[0] = <<>>

\* C23: in one rotate_ips cycle the sends are one Disconnect to every client
\* (ppp0, ppp1, ...) and then one Connect to every client: the wait begins with
\* exactly the Disconnects sent, the cycle ends with exactly the Disconnects
\* followed by the Connects, and at no moment does a Connect of the cycle
\* precede a Disconnect of the cycle.
C23_RotationDownThenUp ==
    /\ [](\A j, k \in 1 .. Len(s_log) :
             (j < k /\ s_log[j][1] = "Connect") => s_log[k][1] = "Connect")
    /\ [][/\ (s_pc # "rot_wait" /\ s_pc' = "rot_wait") =>
                s_log' = Broadcast("Disconnect")
          /\ (s_pc = "rot_wait" /\ s_pc' # "rot_wait") =>
                (s_pc' = "sa_send" /\ s_log' = Broadcast("Disconnect"))
          /\ (s_pc = "sa_sleep" /\ s_pc' = "rot_sleep" /\ s_log # <<>>
                /\ s_log[1][1] = "Disconnect") =>
                s_log = Broadcast("Disconnect") \o Broadcast("Connect")]_vars

\* The up-phase of a rotation has sent its first Connect while the last
\* client has not yet taken its Disconnect.
C23_Witness ==
    /\ s_pc = "sa_sleep"
    /\ s_log = Broadcast("Disconnect") \o <<<<"Connect", 0>>>>
    /\ cmd_chan[FleetSize - 1] = <<"Disconnect">>

\* C24: while serve() sleeps before a rotation, the interval is m * 60 seconds
\* when rotation_time parses as the integer m, whatever the time of day; only
\* for a string that does not parse as an integer is it the time to the next
\* HH:MM, which depends on the time of day.
C24_IntegerMinutesFirst ==
    s_pc = "rot_sleep" =>
        IF ParseI64(config.rotation_time).ok
        THEN secs = 60 * ParseI64(config.rotation_time).value
        ELSE /\ IsValidTimeFormat(config.rotation_time)
             /\ \E now \in ClockSamples :
                  secs = TimeStringToSec(config.rotation_time, now)

\* The scheduler sleeps ten minutes for the rotation time "10".
C24_Witness ==
    /\ s_pc = "rot_sleep"
    /\ config.rotation_time = <<"1", "0">>
    /\ secs = 600

C25_ZeroMinutesRotates ==
    /\ config.rotation_time = <<"0", "0">>
    /\ s_pc = "rot_wait"
    /\ s_log = Broadcast("Disconnect")

\* C26: once ProxyServer::stop has returned, no proxy child is running, no
\* guard is alive and no call of start is pending, so that none is spawned
\* afterwards.
C26_StopLeavesNoProxy ==
    stop_pc = "done" =>
        /\ gost = {}
        /\ guard.pc = "none"
        /\ start_task # "pending"

ClosedAndDrained(i) == ManagerDropped /\ cmd_chan[i] = <<>>

\* C28: a client at the top of its loop whose command channel is closed and
\* drained ends its run loop: it does not panic, and it does not go on
\* supervising its dialer by taking up the handling of the dialer's exit (the
\* handling that sends Disconnected, waits out the backoff and respawns).
C28_ClosedChannelEndsClient ==
    [][\A i \in Ifaces :
         (ClosedAndDrained(i) /\ cpc[i] = "select") =>
            cpc'[i] \notin {"panicked", "exit_send"}]_vars

\* The client may respawn after an exit: the counter is below the maximum, or
\* the maximum is 0.
MayRespawn(i) ==
    \/ config.max_reconnect_attempts = 0
    \/ reconnect_attempts[i] < config.max_reconnect_attempts

\* C29: the handling of a dialer exit begins by clearing the child handle and
\* spawns nothing; it sends one Disconnected for the interface, and no step
\* outside it sends one; with intent Up and the counter below the maximum the
\* send is followed by the counter raised by one and the backoff sleep, still
\* with no dialer spawned, and the end of that sleep by one spawn attempt; with
\* intent Down the send is followed by the top of the loop, the counter as it
\* was and nothing spawned.
C29_ExitHandling ==
    [][\A i \in Ifaces :
         /\ (cpc[i] = "select" /\ cpc'[i] = "exit_send") =>
               (pppd[i] = "Exited" /\ pppd'[i] = "None" /\ children'[i] = children[i]
                /\ events' = events)
         /\ (cpc[i] = "exit_send" /\ cpc'[i] # "exit_send") =>
               /\ events' = Append(events, Disconnected(i))
               /\ children'[i] = children[i] /\ pppd'[i] = "None"
               /\ (should_be_connected[i] /\ MayRespawn(i)) =>
                     /\ reconnect_attempts'[i] = reconnect_attempts[i] + 1
                     /\ cpc'[i] = "backoff_sleep"
                     /\ should_be_connected'[i]
               /\ ~should_be_connected[i] =>
                     /\ reconnect_attempts'[i] = reconnect_attempts[i]
                     /\ cpc'[i] = "select"
                     /\ ~should_be_connected'[i]
         /\ (Len(events') > Len(events) /\ events'[Len(events')] = Disconnected(i)) =>
               cpc[i] = "exit_send"
         /\ (cpc[i] = "backoff_sleep" /\ cpc'[i] # "backoff_sleep") =>
               /\ cpc'[i] = "select"
               /\ pppd[i] = "None"
               /\ children'[i] \in {children[i], children[i] + 1}
               /\ children'[i] = 1 <=> pppd'[i] = "Running"
               /\ reconnect_attempts'[i] = reconnect_attempts[i]]_vars

\* The client waits out the backoff of its second respawn in a row, with the
\* Disconnected of the exit still on the event channel.
C29_Witness ==
    \E i \in Ifaces :
        /\ cpc[i] = "backoff_sleep"
        /\ reconnect_attempts[i] = 2
        /\ events # <<>>
        /\ events[Len(events)] = Disconnected(i)
        /\ children[i] = 0

\* C29 (intent): a dialer exit is only ever handled with intent Up: a client
\* with intent Down holds no child whose exit it could see.
C29_ExitOnlyWithIntentUp ==
    \A i \in Ifaces : cpc[i] = "exit_send" => should_be_connected[i]

\* C30: a successful parse of the dialer's IP line resets the client's
\* reconnect attempt counter to 0.
C30_IpParseResetsAttempts ==
    [][\A i \in Ifaces :
         reader_pending'[i] > reader_pending[i] => reconnect_attempts'[i] = 0]_vars

\* A Reconnect is the oldest command waiting for a client that is in its
\* backoff sleep.
ReconnectDuringBackoff(i) ==
    /\ cpc[i] = "backoff_sleep"
    /\ cmd_chan[i] # <<>>
    /\ Head(cmd_chan[i]) = "Reconnect"

\* C31: a Reconnect that waits for a client in its backoff sleep preempts the
\* timer: the client's next step takes the Reconnect and resets the attempt
\* counter to 0, and does not spawn the dialer the timer was scheduled for.
C31_ReconnectPreemptsBackoff ==
    [][\A i \in Ifaces :
         (ReconnectDuringBackoff(i) /\ cpc'[i] # cpc[i]) =>
            /\ cmd_chan'[i] = Tail(cmd_chan[i])
            /\ reconnect_attempts'[i] = 0
            /\ children'[i] = children[i]
            /\ cpc'[i] = "reconnect_sleep"]_vars

\* The fields of an entry other than local_ip and connected_at.
OtherFields(info) ==
    <<info.traffic, info.uptime_seconds, info.is_healthy, info.last_health_check,
      info.consecutive_failures>>

\* The event loop takes a step of update_connection_info for a Disconnected.
AppliesDisconnected ==
    /\ ev_cur.type = "Disconnected"
    /\ ev_pc \in {"lock", "route"}
    /\ ev_pc' # ev_pc

\* C32: the steps in which the event loop applies a Disconnected keep, in the
\* entry of the event's interface, every field but local_ip and connected_at,
\* which end as None, and keep the entries of all other interfaces as they
\* are; no other writer changes the registry between those steps.
C32_DisconnectedFrame ==
    [][/\ AppliesDisconnected =>
            /\ \A k \in DOMAIN data :
                  /\ k \in DOMAIN data'
                  /\ OtherFields(data'[k]) = OtherFields(data[k])
                  /\ k # ev_cur.interface => data'[k] = data[k]
            /\ DOMAIN data' \subseteq DOMAIN data \cup {ev_cur.interface}
            /\ ev_pc' = "recv" =>
                  /\ data'[ev_cur.interface].local_ip = "None"
                  /\ data'[ev_cur.interface].connected_at = "None"
       /\ (ev_pc = "route" /\ ev_pc' = "route") => data' = data]_vars

\* Every event is applied, the last a Disconnected of ppp0: ppp0's entry has
\* lost its IP and kept the sampled counters, the uptime and the probe result
\* it had, and ppp1's entry still has its IP.
C32_Witness ==
    /\ events = <<>>
    /\ ev_pc = "recv"
    /\ DOMAIN data = {0, 1}
    /\ data[0].local_ip = "None"
    /\ data[0].connected_at = "None"
    /\ data[0].traffic = "Sampled"
    /\ data[0].uptime_seconds = "Computed"
    /\ data[0].is_healthy
    /\ data[1].local_ip = "Some"

\* C33: `ip route add default dev <iface> table <101+idx>` is started only
\* while an IpUpdated is applied, once for the event, never while a
\* Disconnected is applied.
C33_RouteOnlyOnIpUpdated ==
    [][(route_cmd = NoRoute /\ route_cmd' # NoRoute) =>
          /\ ev_cur.type = "IpUpdated"
          /\ route_cmd'.dev = InterfaceName(ev_cur.interface)]_vars

\* C34: an entry of the registry is created only when an IpUpdated of its
\* interface is applied (never by a Disconnected, never by
\* update_health_status), and an entry once created stays.
C34_EntryOnlyFromIpUpdated ==
    [][/\ \A i \in DOMAIN data' \ DOMAIN data : ev_cur = IpUpdated(i)
       /\ DOMAIN data \subseteq DOMAIN data']_vars

\* C35: when `ip route add` for an IpUpdated could not be run, the event is
\* applied all the same: the step that follows the failure stores the event's
\* local_ip and connected_at in the interface's entry, releases the registry
\* and puts the event loop back at its recv, with the events that follow still
\* on the channel.
C35_RouteFailureStillApplies ==
    [][(ev_pc = "route" /\ route_cmd.result = "Err" /\ ev_cur.type = "IpUpdated"
          /\ ev_pc' # ev_pc) =>
            /\ data'[ev_cur.interface].local_ip = ev_cur.local_ip
            /\ data'[ev_cur.interface].connected_at = ev_cur.connected_at
            /\ data'[ev_cur.interface].local_ip # "None"
            /\ data_lock' = "free"
            /\ ev_pc' = "recv"
            /\ events' = events]_vars

\* The route installation for an IpUpdated of ppp1 is failing while ppp1 has
\* no IP in the registry and more events wait on the channel.
C35_Witness ==
    /\ ev_pc = "route"
    /\ route_cmd.result = "Err"
    /\ ev_cur = IpUpdated(1)
    /\ data[1].local_ip = "None"
    /\ Len(events) >= 2

\* C36: a client that takes a Connect while it holds a child sets intent Up
\* and nothing else: the child, the number of dialers, the attempt counter and
\* the event channel stay as they are; one that takes a Connect while it holds
\* no child sets intent Up, resets the counter to 0 and makes one spawn
\* attempt, which leaves at most one dialer more.
C36_ConnectWithChildOnlySetsIntent ==
    [][\A i \in Ifaces :
         TakesCommand(i, "Connect") =>
            /\ should_be_connected'[i]
            /\ events' = events
            /\ cpc'[i] = "select"
            /\ IF pppd[i] # "None"
               THEN /\ pppd'[i] = pppd[i]
                    /\ children'[i] = children[i]
                    /\ reconnect_attempts'[i] = reconnect_attempts[i]
               ELSE /\ reconnect_attempts'[i] = 0
                    /\ children'[i] \in {children[i], children[i] + 1}
                    /\ children'[i] = children[i] + 1 <=> pppd'[i] = "Running"]_vars

\* A Connect is next for a client that holds a live dialer it respawned after
\* an exit, so that its attempt counter is not 0.
C36_Witness ==
    \E i \in Ifaces :
        /\ cpc[i] = "select"
        /\ cmd_chan[i] # <<>>
        /\ Head(cmd_chan[i]) = "Connect"
        /\ pppd[i] = "Running"
        /\ children[i] = 1
        /\ reconnect_attempts[i] = 2

\* C37: a tick of the stats task keeps the registry's interfaces and, in every
\* entry, local_ip, connected_at, is_healthy, last_health_check and
\* consecutive_failures; the entry of an interface whose kernel counters are
\* missing keeps every field; uptime_seconds changes only in an entry whose
\* connected_at is set.
C37_StatsTickFrame ==
    [][StatsTick =>
         /\ DOMAIN data' = DOMAIN data
         /\ \A k \in DOMAIN data :
               /\ data'[k].local_ip = data[k].local_ip
               /\ data'[k].connected_at = data[k].connected_at
               /\ data'[k].is_healthy = data[k].is_healthy
               /\ data'[k].last_health_check = data[k].last_health_check
               /\ data'[k].consecutive_failures = data[k].consecutive_failures
               /\ data'[k].uptime_seconds # data[k].uptime_seconds
                     => data[k].connected_at # "None"
         /\ \E present \in SUBSET Ifaces :
               \A k \in DOMAIN data :
                  /\ k \notin present => data'[k] = data[k]
                  /\ k \in present => data'[k].traffic = "Sampled"]_vars

\* ppp0's counters were sampled while it was probed and not connected, so
\* that its uptime was left alone; ppp1 is connected and its counters were
\* missing at every tick.
C37_Witness ==
    /\ DOMAIN data = {0, 1}
    /\ data[0].traffic = "Sampled"
    /\ data[0].uptime_seconds = "Default"
    /\ data[0].connected_at = "None"
    /\ data[0].last_health_check = "Some"
    /\ data[1].traffic = "Default"
    /\ data[1].connected_at = "Some"

\* C38: a client at the top of its loop with intent Down holds no child, and
\* at any moment a live dialer exists only for a client whose intent is Up.
C38_IntentDownNoChild ==
    \A i \in Ifaces :
        /\ (cpc[i] = "select" /\ ~should_be_connected[i]) =>
              (pppd[i] = "None" /\ children[i] = 0)
        /\ children[i] > 0 => should_be_connected[i]

\* A client waits at the top of its loop with intent Down after a Disconnect
\* (the counter is 0, the registry still shows the IP of the dialer it killed),
\* and a Connect is already queued for it.
C38_Witness ==
    \E i \in Ifaces :
        /\ cpc[i] = "select"
        /\ ~should_be_connected[i]
        /\ pppd[i] = "None"
        /\ reconnect_attempts[i] = 0
        /\ i \in DOMAIN data
        /\ data[i].local_ip = "Some"
        /\ cmd_chan[i] # <<>>
        /\ Head(cmd_chan[i]) = "Connect"

\* The client has processed a Disconnect and nothing since: intent Down, the
\* counter reset, no child, at the top of its loop with no command waiting,
\* and neither the control surface nor serve() has a command under way for it.
IntentionallyDown(i) ==
    /\ cpc[i] = "select"
    /\ ~should_be_connected[i]
    /\ reconnect_attempts[i] = 0
    /\ pppd[i] = "None"
    /\ cmd_chan[i] = <<>>
    /\ tloc["ctl"].iface # i
    /\ s_todo = <<>>

\* C39: the liveness subsystem never sends a Reconnect to a client that is
\* intentionally down, so that such a client gets no command, and spawns no
\* dialer, until the operator or the scheduler issues one.
C39_NoReconnectWhenIntentionallyDown ==
    [][\A i \in Ifaces :
         (IntentionallyDown(i) /\ cmd_chan'[i] # <<>>) =>
             ~(tpc["health"] = "send" /\ tloc["health"].iface = i)]_vars

\* No event of interface i is in flight: the channel is empty, the event loop
\* is at its recv and no reader holds a parsed line.
NoEventInFlight(i) ==
    /\ events = <<>>
    /\ ev_pc = "recv"
    /\ reader_pending[i] = 0

\* C40: once a Reconnect has killed the dialer and the events in flight are
\* processed, the registry shows no IP for the interface while the client has
\* not yet spawned the new dialer.
C40_ReconnectClearsRegistry ==
    \A i \in Ifaces :
        (cpc[i] = "reconnect_sleep" /\ NoEventInFlight(i) /\ i \in DOMAIN data) =>
            data[i].local_ip = "None"
=============================================================================
